---- MODULE Spec2Model ----
(***************************************************************************)
(* The in-memory catalog store of library-service (services/bookService)   *)
(* and the controller calls that drive it (controllers/bookController).    *)
(*                                                                         *)
(* A JavaScript object is a function from its own property names to        *)
(* values: a property that was never set, or that `delete` removed, is not *)
(* in the DOMAIN; a property holding `undefined` is in the DOMAIN with the *)
(* value Undefined.                                                        *)
(***************************************************************************)
EXTENDS Integers, Sequences, FiniteSets, TLC

VARIABLES
    books,      \* the module-level array `books` of bookService
    ret,        \* what the last store call gave its caller
    alias,      \* index in books of the object ret IS (same reference), 0 if a copy
    lastOp,     \* the last call: its name and arguments
    deleted,    \* ids deleteBook returned true for since the last addBook
    nOps        \* number of calls made so far

vars == <<books, ret, alias, lastOp, deleted, nOps>>

\* Longest run of calls explored.
MaxOps == 3

-----------------------------------------------------------------------------
(* JavaScript values *)

Undefined == "<undefined>"
Null == "<null>"

\* ToBoolean on the values a JSON body field can hold here: the `!x` of addBook.
Falsy(v) == v \in {Undefined, Null, ""}

\* obj.key
Get(obj, key) == IF key \in DOMAIN obj THEN obj[key] ELSE Undefined

\* delete obj.key
Delete(obj, key) == [k \in DOMAIN obj \ {key} |-> obj[k]]

\* Object.assign(target, source): every own property of source is copied.
ObjectAssign(target, source) ==
    [k \in DOMAIN target \cup DOMAIN source |->
        IF k \in DOMAIN source THEN source[k] ELSE target[k]]

\* structuredClone(v): a deep copy, equal in value, sharing nothing.
structuredClone(v) == v

EmptyObj == [k \in {} |-> ""]

-----------------------------------------------------------------------------
(* Time.  Date.now() is a count of milliseconds since the epoch; it is     *)
(* kept as [day, ms] (whole days, milliseconds into the day) so that the   *)
(* arithmetic stays inside the checker's integers.                         *)

MsPerDay == 24 * 60 * 60 * 1000

\* t + delta milliseconds, delta >= 0
AddMs(t, delta) ==
    LET total == t.ms + delta
    IN  [day |-> t.day + (total \div MsPerDay), ms |-> total % MsPerDay]

Pad(n, width) ==
    LET s == ToString(n)
    IN  IF width - Len(s) = 3 THEN "000" \o s
        ELSE IF width - Len(s) = 2 THEN "00" \o s
        ELSE IF width - Len(s) = 1 THEN "0" \o s
        ELSE s

\* Year, month and day of month of a day number (days since 1970-01-01),
\* proleptic Gregorian calendar, day >= -719468.
CivilFromDays(day) ==
    LET z   == day + 719468
        era == z \div 146097
        doe == z - era * 146097
        yoe == (doe - (doe \div 1460) + (doe \div 36524) - (doe \div 146096)) \div 365
        doy == doe - (365 * yoe + (yoe \div 4) - (yoe \div 100))
        mp  == (5 * doy + 2) \div 153
        d   == doy - ((153 * mp + 2) \div 5) + 1
        m   == IF mp < 10 THEN mp + 3 ELSE mp - 9
        y   == yoe + era * 400 + (IF m <= 2 THEN 1 ELSE 0)
    IN  [year |-> y, month |-> m, date |-> d]

\* new Date(t).toISOString(): "YYYY-MM-DDTHH:mm:ss.sssZ" in UTC.
toISOString(t) ==
    LET c  == CivilFromDays(t.day)
        hh == t.ms \div 3600000
        mi == (t.ms % 3600000) \div 60000
        ss == (t.ms % 60000) \div 1000
        ms == t.ms % 1000
    IN  Pad(c.year, 4) \o "-" \o Pad(c.month, 2) \o "-" \o Pad(c.date, 2) \o "T"
        \o Pad(hh, 2) \o ":" \o Pad(mi, 2) \o ":" \o Pad(ss, 2) \o "."
        \o Pad(ms, 3) \o "Z"

\* (x).toFixed(0) for x = num/den * 10000 >= 0: the nearest integer, the
\* larger one on a tie, in decimal.
toFixed0(r) == ToString((2 * r.num * 10000 + r.den) \div (2 * r.den))

-----------------------------------------------------------------------------
(* The store: services/bookService *)

\* const books: Book[] = [ ... ] : the seed catalog
SeedBooks ==
    << [id |-> "1", title |-> "The Great Gatsby", author |-> "F. Scott Fitzgerald",
        genre |-> "Fiction", isBorrowed |-> FALSE],
       [id |-> "2", title |-> "1984", author |-> "George Orwell",
        genre |-> "Dystopian", isBorrowed |-> FALSE],
       [id |-> "3", title |-> "To Kill a Mockingbird", author |-> "Harper Lee",
        genre |-> "Classic", isBorrowed |-> FALSE] >>

\* What a call gives its caller: a book, a list of books, null, true, false,
\* or a thrown Error.
RetBook(b)  == [kind |-> "book", val |-> <<b>>]
RetList(bs) == [kind |-> "list", val |-> bs]
RetNull     == [kind |-> "null", val |-> <<>>]
RetBool(v)  == [kind |-> IF v THEN "true" ELSE "false", val |-> <<>>]
RetThrow    == [kind |-> "throw", val |-> <<>>]

\* books.findIndex((b) => b.id === id), counting from 1; 0 is JavaScript's -1.
\* books.find((b) => b.id === id) is the element at that index.
FindIndex(bs, id) ==
    IF \E i \in 1..Len(bs) : bs[i].id = id
    THEN CHOOSE i \in 1..Len(bs) :
            /\ bs[i].id = id
            /\ \A j \in 1..(i - 1) : bs[j].id # id
    ELSE 0

\* books.splice(index, 1)
Splice(bs, index) == SubSeq(bs, 1, index - 1) \o SubSeq(bs, index + 1, Len(bs))

getAllBooks(bs) ==
    [books |-> bs, ret |-> RetList(structuredClone(bs)), alias |-> 0]

\* addBook that forgets to require genre
addBook_genreUnchecked(bs, bookData, random) ==
    IF \/ Falsy(Get(bookData, "title"))
       \/ Falsy(Get(bookData, "author"))
    THEN [books |-> bs, ret |-> RetThrow, alias |-> 0]
    ELSE LET newBook == [id |-> toFixed0(random),
                         title |-> bookData.title,
                         author |-> bookData.author,
                         genre |-> Get(bookData, "genre"),
                         isBorrowed |-> FALSE]
         IN  [books |-> Append(bs, newBook), ret |-> RetBook(newBook),
              alias |-> Len(bs) + 1]

addBook(bs, bookData, random) ==
    IF \/ Falsy(Get(bookData, "title"))
       \/ Falsy(Get(bookData, "author"))
       \/ Falsy(Get(bookData, "genre"))
    THEN [books |-> bs, ret |-> RetThrow, alias |-> 0]
    ELSE LET newBook == [id |-> toFixed0(random),
                         title |-> bookData.title,
                         author |-> bookData.author,
                         genre |-> bookData.genre,
                         isBorrowed |-> FALSE]
         IN  \* the pushed object itself is returned, not a copy
             [books |-> Append(bs, newBook), ret |-> RetBook(newBook),
              alias |-> Len(bs) + 1]

\* safeUpdate that forgets `delete safeUpdate.isBorrowed`
safeUpdate_keepsIsBorrowed(bookData) ==
    Delete(Delete(Delete(bookData, "id"), "borrowerId"), "dueDate")

\* { ...bookData } with the four protected fields deleted
safeUpdate(bookData) ==
    Delete(Delete(Delete(Delete(bookData, "id"), "isBorrowed"), "borrowerId"), "dueDate")

updateBook(bs, id, bookData) ==
    LET index == FindIndex(bs, id)
    IN  IF index = 0
        THEN [books |-> bs, ret |-> RetNull, alias |-> 0]
        ELSE LET book == ObjectAssign(bs[index], safeUpdate(bookData))
             IN  [books |-> [bs EXCEPT ![index] = book],
                  ret |-> RetBook(structuredClone(book)), alias |-> 0]

deleteBook(bs, id) ==
    LET index == FindIndex(bs, id)
    IN  IF index # 0
        THEN [books |-> Splice(bs, index), ret |-> RetBool(TRUE), alias |-> 0]
        ELSE [books |-> bs, ret |-> RetBool(FALSE), alias |-> 0]

\* borrowBook without the `if (book.isBorrowed) return null`
borrowBook_lendsBorrowed(bs, id, borrowerId, now) ==
    LET index == FindIndex(bs, id)
    IN  IF index = 0
        THEN [books |-> bs, ret |-> RetNull, alias |-> 0]
        ELSE LET book == ObjectAssign(bs[index],
                            [isBorrowed |-> TRUE,
                             borrowerId |-> borrowerId,
                             dueDate |-> toISOString(
                                 AddMs(now, 14 * 24 * 60 * 60 * 1000))])
             IN  [books |-> [bs EXCEPT ![index] = book],
                  ret |-> RetBook(structuredClone(book)), alias |-> 0]

\* borrowBook that adds 14 days counted in seconds, not milliseconds
borrowBook_dueInSeconds(bs, id, borrowerId, now) ==
    LET index == FindIndex(bs, id)
    IN  IF index = 0
        THEN [books |-> bs, ret |-> RetNull, alias |-> 0]
        ELSE IF bs[index].isBorrowed
        THEN [books |-> bs, ret |-> RetNull, alias |-> 0]
        ELSE LET book == ObjectAssign(bs[index],
                            [isBorrowed |-> TRUE,
                             borrowerId |-> borrowerId,
                             dueDate |-> toISOString(
                                 AddMs(now, 14 * 24 * 60 * 60))])
             IN  [books |-> [bs EXCEPT ![index] = book],
                  ret |-> RetBook(structuredClone(book)), alias |-> 0]

borrowBook(bs, id, borrowerId, now) ==
    LET index == FindIndex(bs, id)
    IN  IF index = 0
        THEN [books |-> bs, ret |-> RetNull, alias |-> 0]
        ELSE IF bs[index].isBorrowed
        THEN [books |-> bs, ret |-> RetNull, alias |-> 0]
        ELSE LET book == ObjectAssign(bs[index],
                            [isBorrowed |-> TRUE,
                             borrowerId |-> borrowerId,
                             dueDate |-> toISOString(
                                 AddMs(now, 14 * 24 * 60 * 60 * 1000))])
             IN  [books |-> [bs EXCEPT ![index] = book],
                  ret |-> RetBook(structuredClone(book)), alias |-> 0]

\* returnBook that forgets `delete book.dueDate`
returnBook_keepsDueDate(bs, id) ==
    LET index == FindIndex(bs, id)
    IN  IF index = 0
        THEN [books |-> bs, ret |-> RetNull, alias |-> 0]
        ELSE IF ~bs[index].isBorrowed
        THEN [books |-> bs, ret |-> RetNull, alias |-> 0]
        ELSE LET book == Delete([bs[index] EXCEPT !.isBorrowed = FALSE],
                                "borrowerId")
             IN  [books |-> [bs EXCEPT ![index] = book],
                  ret |-> RetBook(structuredClone(book)), alias |-> 0]

returnBook(bs, id) ==
    LET index == FindIndex(bs, id)
    IN  IF index = 0
        THEN [books |-> bs, ret |-> RetNull, alias |-> 0]
        ELSE IF ~bs[index].isBorrowed
        THEN [books |-> bs, ret |-> RetNull, alias |-> 0]
        ELSE LET book == Delete(Delete([bs[index] EXCEPT !.isBorrowed = FALSE],
                                       "borrowerId"), "dueDate")
             IN  [books |-> [bs EXCEPT ![index] = book],
                  ret |-> RetBook(structuredClone(book)), alias |-> 0]

getRecommendations(bs) ==
    [books |-> bs,
     ret |-> RetList(structuredClone(SubSeq(bs, 1, IF Len(bs) < 3 THEN Len(bs) ELSE 3))),
     alias |-> 0]

-----------------------------------------------------------------------------
(* Inputs of the calls *)

\* Math.random(), as a fraction num/den in [0, 1)
RandomOutcomes == { [num |-> 3, den |-> 20000],     \* 1.5 -> "2"
                    [num |-> 1, den |-> 2500] }     \* 4   -> "4"

\* req.params.id
RequestIds == {"1", "2", "3", "4", "9"}

\* req.body of POST /
AddBodies ==
    { [title |-> "Dune", author |-> "Frank Herbert", genre |-> "SciFi"],
      [author |-> "Frank Herbert", genre |-> "SciFi"],
      [title |-> "Dune", author |-> "", genre |-> "SciFi"],
      [title |-> "Dune", author |-> "Frank Herbert", genre |-> Null] }

\* req.body of PUT /:id
UpdateBodies ==
    { [title |-> "Nineteen Eighty-Four"],
      [title |-> ""],
      [id |-> "9", isBorrowed |-> TRUE, borrowerId |-> "mallory",
       dueDate |-> "2000-01-01T00:00:00.000Z", genre |-> "Epic"],
      [isBorrowed |-> FALSE, author |-> "Anon"] }

\* req.body of POST /:id/borrow
BorrowBodies == { EmptyObj, [borrowerId |-> "u1"], [borrowerId |-> "u2"] }

\* Date.now() at the borrow call
Times == { [day |-> 19768, ms |-> 86399999],    \* 2024-02-15T23:59:59.999Z
           [day |-> 20447, ms |-> 29103007] }   \* 2025-12-25T08:05:03.007Z

NoTime == [day |-> 0, ms |-> 0]

\* What a caller holding a returned book may assign to it
CallerWrites == { [title |-> "scribbled"], [isBorrowed |-> TRUE] }

-----------------------------------------------------------------------------
(* The calls: each controller handler with the store call it makes *)

Init ==
    /\ books = SeedBooks
    /\ ret = RetNull
    /\ alias = 0
    /\ lastOp = [op |-> "init", id |-> "", data |-> EmptyObj, now |-> NoTime]
    /\ deleted = {}
    /\ nOps = 0

Call(result, op, id, data, now) ==
    /\ nOps < MaxOps
    /\ nOps' = nOps + 1
    /\ books' = result.books
    /\ ret' = result.ret
    /\ alias' = result.alias
    /\ lastOp' = [op |-> op, id |-> id, data |-> data, now |-> now]
    /\ deleted' = IF op = "addBook" THEN {}
                  ELSE IF op = "deleteBook" /\ result.ret = RetBool(TRUE)
                       THEN deleted \cup {id}
                       ELSE deleted

GetAllBooks ==
    Call(getAllBooks(books), "getAllBooks", "", EmptyObj, NoTime)

AddBook ==
    \E body \in AddBodies, random \in RandomOutcomes :
        Call(addBook(books, body, random), "addBook", "", body, NoTime)

UpdateBook ==
    \E id \in RequestIds, body \in UpdateBodies :
        Call(updateBook(books, id, body), "updateBook", id, body, NoTime)

DeleteBook ==
    \E id \in RequestIds :
        Call(deleteBook(books, id), "deleteBook", id, EmptyObj, NoTime)

BorrowBook ==
    \E id \in RequestIds, body \in BorrowBodies, now \in Times :
        Call(borrowBook(books, id, Get(body, "borrowerId"), now),
             "borrowBook", id, body, now)

ReturnBook ==
    \E id \in RequestIds :
        Call(returnBook(books, id), "returnBook", id, EmptyObj, NoTime)

GetRecommendations ==
    Call(getRecommendations(books), "getRecommendations", "", EmptyObj, NoTime)

Next ==
    \/ GetAllBooks
    \/ AddBook
    \/ UpdateBook
    \/ DeleteBook
    \/ BorrowBook
    \/ ReturnBook
    \/ GetRecommendations

Spec == Init /\ [][Next]_vars

\* A caller that holds the last returned book (or list) assigns to one of its
\* fields.  When the returned book is the stored object itself, the write
\* lands in the store.
CallerMutate ==
    /\ nOps < MaxOps
    /\ ret.kind \in {"book", "list"}
    /\ \E i \in 1..Len(ret.val), w \in CallerWrites :
        /\ ret' = [ret EXCEPT !.val[i] = ObjectAssign(@, w)]
        /\ books' = IF alias # 0
                    THEN [books EXCEPT ![alias] = ObjectAssign(@, w)]
                    ELSE books
        /\ lastOp' = [op |-> "callerMutate", id |-> "", data |-> w, now |-> NoTime]
    /\ nOps' = nOps + 1
    /\ UNCHANGED <<alias, deleted>>

NextCaller ==
    \/ Next
    \/ CallerMutate

SpecCaller == Init /\ [][NextCaller]_vars

-----------------------------------------------------------------------------
(* Properties *)

\* A field that holds a value: an own property that is not undefined.
Present(b, k) == k \in DOMAIN b /\ b[k] # Undefined

\* The call just made (the step's call, in an action formula as lastOp').
IsCall(op) == lastOp.op = op

\* Index of the book the last call's id finds in bs (0 if none).
TargetIn(bs) == FindIndex(bs, lastOp.id)

\* C1: no two books in the store have the same id.
C1_UniqueIds ==
    \A i, j \in 1..Len(books) : i # j => books[i].id # books[j].id

\* C2: a caller's write to a returned book leaves what getAllBooks returns
\* as it was.
C2_ReturnedValuesAreCopies ==
    [][lastOp'.op = "callerMutate"
        => getAllBooks(books').ret = getAllBooks(books).ret]_vars

\* C3: for every book, borrowerId is present iff isBorrowed, and dueDate is
\* present iff isBorrowed.
C3_BorrowFieldsTiedToIsBorrowed ==
    \A i \in 1..Len(books) :
        /\ Present(books[i], "borrowerId") <=> books[i].isBorrowed
        /\ Present(books[i], "dueDate") <=> books[i].isBorrowed

\* The four protected fields of a and b agree: each is absent in both or
\* holds the same value in both.
SameProtected(a, b) ==
    /\ a.id = b.id
    /\ a.isBorrowed = b.isBorrowed
    /\ \A k \in {"borrowerId", "dueDate"} :
        /\ (k \in DOMAIN a) <=> (k \in DOMAIN b)
        /\ k \in DOMAIN a => a[k] = b[k]

\* C4: updateBook leaves id, isBorrowed, borrowerId and dueDate of the
\* targeted book as they were, whatever the data supplies.
C4_UpdateKeepsProtectedFields ==
    [][lastOp'.op = "updateBook" =>
        LET i == FindIndex(books, lastOp'.id)
        IN  /\ Len(books') = Len(books)
            /\ i # 0 => SameProtected(books[i], books'[i])]_vars

\* C4 witness: an update that supplies all four protected fields has just
\* been applied to a borrowed book.
C4_Witness ==
    /\ IsCall("updateBook")
    /\ {"id", "isBorrowed", "borrowerId", "dueDate"} \subseteq DOMAIN lastOp.data
    /\ TargetIn(books) # 0
    /\ books[TargetIn(books)].isBorrowed
    /\ books[TargetIn(books)].genre = "Epic"

\* C5: deleteBook(id) on a store holding the id returns true and removes the
\* record; deleteBook(id) again, with no addBook in between, returns false.
C5_DeleteTwice ==
    [][lastOp'.op = "deleteBook" =>
        LET id == lastOp'.id
            i  == FindIndex(books, id)
        IN  /\ i # 0 => ret'.kind = "true" /\ books' = Splice(books, i)
            /\ id \in deleted => ret'.kind = "false"]_vars

\* A creation body with a missing (absent or null) or empty required field.
MissingOrEmpty(data) ==
    \E k \in {"title", "author", "genre"} :
        k \notin DOMAIN data \/ data[k] = Null \/ data[k] = ""

\* C6: addBook with a missing or empty title, author or genre throws and
\* leaves the list of books as it was.
C6_InvalidAddThrowsAndKeepsBooks ==
    [][(lastOp'.op = "addBook" /\ MissingOrEmpty(lastOp'.data))
        => (ret'.kind = "throw" /\ books' = books)]_vars

\* C6 witness: an addBook with an invalid body has just thrown.
C6_Witness ==
    /\ IsCall("addBook")
    /\ MissingOrEmpty(lastOp.data)
    /\ ret.kind = "throw"
    /\ nOps > 1

CalendarDue(now) ==
    IF now = [day |-> 19768, ms |-> 86399999] THEN "2024-02-29T23:59:59.999Z"
    ELSE IF now = [day |-> 20447, ms |-> 29103007] THEN "2026-01-08T08:05:03.007Z"
    ELSE toISOString(AddMs(now, 14 * MsPerDay))

\* Where the object at books[i] is in books' after the step (0: removed).
IndexAfter(i) ==
    IF lastOp'.op = "deleteBook" /\ ret'.kind = "true"
    THEN LET k == FindIndex(books, lastOp'.id)
         IN  IF i < k THEN i ELSE IF i = k THEN 0 ELSE i - 1
    ELSE i

\* C9: a successful borrowBook(id, borrowerId) at time t leaves the book
\* with isBorrowed = true, the supplied borrowerId and dueDate t + 14 days;
\* the dueDate of a book stays the same while the book stays borrowed.
C9_DueDateIsFourteenDaysAndStable ==
    [][/\ (lastOp'.op = "borrowBook" /\ ret'.kind = "book") =>
            LET i == FindIndex(books', lastOp'.id)
            IN  /\ i # 0
                /\ books'[i].isBorrowed = TRUE
                /\ books'[i].borrowerId = Get(lastOp'.data, "borrowerId")
                /\ books'[i].dueDate = toISOString(AddMs(lastOp'.now, 14 * MsPerDay))
                /\ books'[i].dueDate = CalendarDue(lastOp'.now)
                /\ ret'.val[1] = books'[i]
       /\ \A i \in 1..Len(books) :
            (books[i].isBorrowed /\ IndexAfter(i) # 0
                /\ books'[IndexAfter(i)].isBorrowed)
            => /\ books'[IndexAfter(i)].dueDate = books[i].dueDate
               /\ books'[IndexAfter(i)].borrowerId = books[i].borrowerId]_vars

\* C9 witness: a book borrowed on 2024-02-15 is still on loan, due on the
\* leap day, after a later call on the same book.
C9_Witness ==
    /\ IsCall("updateBook")
    /\ TargetIn(books) # 0
    /\ books[TargetIn(books)].isBorrowed
    /\ books[TargetIn(books)].dueDate = "2024-02-29T23:59:59.999Z"

\* C10: every book has a non-empty title, author and genre.
C10_RequiredFieldsNonEmpty ==
    \A i \in 1..Len(books) :
        \A k \in {"title", "author", "genre"} :
            /\ k \in DOMAIN books[i]
            /\ books[i][k] \notin {Undefined, Null, ""}

====
